---- MODULE Spec2Model ----
(* Live-call monitoring core of the hotel admin dashboard (LiveCalls page). *)
(* The Session Store is the React state liveCalls; the Duration Ticker and  *)
(* the Arrival/Departure Simulator are the two setInterval effects and the  *)
(* per-session setTimeout; the Action Dispatcher is handleCallAction,       *)
(* endCall and the Listen / Mute button handlers.  Time is counted in whole *)
(* seconds since the component was mounted.  An id n stands for `live-n`.   *)
EXTENDS Integers, Sequences, FiniteSets, TLC

\* ---------------------------------------------------------------- bounds
\* the clock stops after MaxTime seconds
MaxTime == 20
\* lifespans of simulated calls are drawn every LifespanStep seconds apart
LifespanStep == 29
\* Date.now() in seconds at the moment the component is mounted
MountTime == 1000
\* the clock of the dispatcher specification stops after DispatchMaxTime
DispatchMaxTime == 2
\* largest Store the dispatcher specification starts from
MaxStore == 3
\* the page is opened at most MaxLoadDelay seconds after the module was loaded
MaxLoadDelay == 2
\* the render specification queues at most MaxPending updates per render
MaxPending == 2
\* the clock of the render specification stops after BatchMaxTime
BatchMaxTime == 20
\* the clock of the lifespan specification stops after LifespanMaxTime
LifespanMaxTime == 50
\* how many of the initial calls operator commands name
MaxInitialTargets == 1

\* ------------------------------------------------------ program constants
TickInterval == 1
EventInterval == 10
LifespanBase == 10
LifespanRange == 30
totalAgents == 5
availableAgents == 2
NoCall == -1

Statuses == {"active", "on_hold", "transferring"}

initialLiveCalls ==
  << [id |-> 1, callerNumber |-> "+91 98765 43210", callerName |-> "Rajesh Kumar",
      intent |-> "Booking Inquiry", sentiment |-> "positive", duration |-> 125,
      startTime |-> MountTime - 125, status |-> "active"],
     [id |-> 2, callerNumber |-> "+91 98765 43211", callerName |-> "Priya Sharma",
      intent |-> "Room Service", sentiment |-> "neutral", duration |-> 87,
      startTime |-> MountTime - 87, status |-> "active"],
     [id |-> 3, callerNumber |-> "+91 98765 43212", callerName |-> "Waiting...",
      intent |-> "Unknown", sentiment |-> "neutral", duration |-> 23,
      startTime |-> MountTime - 23, status |-> "on_hold"] >>

VARIABLES
  liveCalls,     \* the Store: sequence of call sessions, in render order
  selectedCall,  \* id of the selected card, or NoCall
  isListening,   \* the Listen flag
  isMuted,       \* the Mute flag
  timers,        \* pending removal timeouts: records [id, due]
  now,           \* seconds since mount
  eventDue,      \* next firing time of the call-event interval
  result,        \* what the last handler returned to its caller
  mounted,       \* the component is mounted: its effects were not cleaned up
  pending,       \* updates queued by setLiveCalls since the last render
  last           \* the last operation: [op, id, before]

vars == <<liveCalls, selectedCall, isListening, isMuted, timers, now,
          eventDue, result, mounted, pending, last>>

\* ------------------------------------------------------------- helpers
\* Date.now(), in seconds
DateNow == MountTime + now

\* ids of the sessions in a store
IdsOf(calls) == {calls[i].id : i \in DOMAIN calls}

\* liveCalls.find(c => c.id === id): index of the first match, 0 if none
FindIndex(calls, id) ==
  IF \E i \in DOMAIN calls : calls[i].id = id
    THEN CHOOSE i \in DOMAIN calls :
           /\ calls[i].id = id
           /\ \A j \in DOMAIN calls : calls[j].id = id => i <= j
    ELSE 0

\* status of the session id in a store, "absent" if there is none
StatusOf(calls, id) ==
  IF FindIndex(calls, id) = 0 THEN "absent" ELSE calls[FindIndex(calls, id)].status

\* endCallUpdater that refuses to drop a call that is being transferred
endCallUpdater_KeepsTransferring(prev, callId) ==
  LET keep == {i \in DOMAIN prev : prev[i].id # callId \/ prev[i].status = "transferring"}
      nth(n) == CHOOSE i \in keep : Cardinality({j \in keep : j < i}) = n - 1
  IN [n \in 1..Cardinality(keep) |-> prev[nth(n)]]

\* endCallUpdater written as prev.splice(prev.findIndex(...), 1): an index
\* of -1 (no such call) removes the last call
endCallUpdater_Splice(prev, callId) ==
  LET idx == FindIndex(prev, callId)
      at == IF idx = 0 THEN Len(prev) ELSE idx
  IN [i \in 1..(IF Len(prev) = 0 THEN 0 ELSE Len(prev) - 1) |->
        IF i < at THEN prev[i] ELSE prev[i + 1]]

\* the updater of endCall: prev.filter(call => call.id !== callId)
endCallUpdater(prev, callId) ==
  LET keep(call) == call.id # callId IN SelectSeq(prev, keep)

\* RemovalUpdater written as prev.slice(1): the oldest call is dropped
RemovalUpdater_Oldest(prev, id) ==
  [i \in 1..(IF Len(prev) = 0 THEN 0 ELSE Len(prev) - 1) |-> prev[i + 1]]

\* RemovalUpdater that spares a call that was answered
RemovalUpdater_SparesActive(prev, id) ==
  LET keep == {i \in DOMAIN prev : prev[i].id # id \/ prev[i].status = "active"}
      nth(n) == CHOOSE i \in keep : Cardinality({j \in keep : j < i}) = n - 1
  IN [n \in 1..Cardinality(keep) |-> prev[nth(n)]]

\* RemovalUpdater written as prev.slice(0, -1): the newest call is dropped
RemovalUpdater_Pop(prev, id) ==
  [i \in 1..(IF Len(prev) = 0 THEN 0 ELSE Len(prev) - 1) |-> prev[i]]

\* the updater of the removal timeout: prev.filter(call => call.id !== newCall.id)
RemovalUpdater(prev, id) ==
  LET keep(call) == call.id # id IN SelectSeq(prev, keep)

\* the Listen button's handler: setIsListening(!isListening)
ListenClick(listening, muted) == [isListening |-> ~listening, isMuted |-> muted]

\* MuteClick calling the Listen button's setter
MuteClick_CopyPaste(listening, muted) == [isListening |-> ~listening, isMuted |-> muted]

\* the Mute button's handler: setIsMuted(!isMuted)
MuteClick(listening, muted) == [isListening |-> listening, isMuted |-> ~muted]

\* NewStatus with a third outcome for the actions that are not answer
NewStatus_Transfers(action) == IF action = "answer" THEN "active" ELSE "transferring"

\* NewStatus with the two outcomes exchanged
NewStatus_Swapped(action) == IF action = "answer" THEN "on_hold" ELSE "active"

\* the new status handleCallAction writes for an action string
NewStatus(action) == IF action = "answer" THEN "active" ELSE "on_hold"

\* handleCallActionUpdater without the id test: every call gets the status
handleCallActionUpdater_EveryCall(prev, callId, action) ==
  [i \in DOMAIN prev |-> [prev[i] EXCEPT !.status = NewStatus(action)]]

\* the updater of handleCallAction: prev.map(call => call.id === callId ? ... : call)
handleCallActionUpdater(prev, callId, action) ==
  LET setStatus(call) ==
        IF call.id = callId THEN [call EXCEPT !.status = NewStatus(action)] ELSE call
  IN [i \in DOMAIN prev |-> setStatus(prev[i])]

\* TickUpdater that leaves out the last call of the list
TickUpdater_SkipsLast(prev) ==
  [i \in DOMAIN prev |->
     IF i = Len(prev) THEN prev[i]
                      ELSE [prev[i] EXCEPT !.duration = prev[i].duration + 1]]

\* TickUpdater that also writes the status of the calls it advances
TickUpdater_Activates(prev) ==
  [i \in DOMAIN prev |->
     [prev[i] EXCEPT !.duration = prev[i].duration + 1, !.status = "active"]]

\* TickUpdater counting down instead of up
TickUpdater_Countdown(prev) ==
  [i \in DOMAIN prev |-> [prev[i] EXCEPT !.duration = prev[i].duration - 1]]

\* TickUpdater advancing the active calls only
TickUpdater_ActiveOnly(prev) ==
  LET bump(call) ==
        IF call.status = "active" THEN [call EXCEPT !.duration = call.duration + 1] ELSE call
  IN [i \in DOMAIN prev |-> bump(prev[i])]

\* the updater of the duration interval: every call gets duration + 1
TickUpdater(prev) ==
  LET bump(call) == [call EXCEPT !.duration = call.duration + 1]
  IN [i \in DOMAIN prev |-> bump(prev[i])]

\* ArrivalUpdater written as [newCall, ...prev]: the new call comes first
ArrivalUpdater_Front(prev, newCall) == <<newCall>> \o prev

\* ArrivalUpdater applied twice to the same arrival
ArrivalUpdater_Twice(prev, newCall) == Append(Append(prev, newCall), newCall)

\* the updater of an arrival: [...prev, newCall]
ArrivalUpdater(prev, newCall) == Append(prev, newCall)

\* StatsOf whose activeCalls filter is call => call.status (always truthy)
StatsOf_AllActive(calls) ==
  LET isWaiting(call) == call.status = "on_hold"
  IN [activeCalls |-> Len(calls),
      waitingCalls |-> Len(SelectSeq(calls, isWaiting)),
      totalAgents |-> totalAgents,
      availableAgents |-> availableAgents]

\* StatsOf whose waitingCalls filter is call => call.status !== 'active'
StatsOf_NotActiveWaits(calls) ==
  LET isActive(call) == call.status = "active"
      isWaiting(call) == call.status # "active"
  IN [activeCalls |-> Len(SelectSeq(calls, isActive)),
      waitingCalls |-> Len(SelectSeq(calls, isWaiting)),
      totalAgents |-> totalAgents,
      availableAgents |-> availableAgents]

\* the stats object, computed on every render from one value of liveCalls
StatsOf(calls) ==
  LET isActive(call) == call.status = "active"
      isWaiting(call) == call.status = "on_hold"
  IN [activeCalls |-> Len(SelectSeq(calls, isActive)),
      waitingCalls |-> Len(SelectSeq(calls, isWaiting)),
      totalAgents |-> totalAgents,
      availableAgents |-> availableAgents]

stats == StatsOf(liveCalls)

\* NewCall numbering the calls by the length of the list
NewCall_LengthId(number) ==
  [id |-> Len(liveCalls) + 1, callerNumber |-> number, callerName |-> "Incoming Call...",
   intent |-> "Unknown", sentiment |-> "neutral", duration |-> 0,
   startTime |-> DateNow, status |-> "on_hold"]

\* the object literal newCall of an arrival at the current time
NewCall(number) ==
  [id |-> DateNow, callerNumber |-> number, callerName |-> "Incoming Call...",
   intent |-> "Unknown", sentiment |-> "neutral", duration |-> 0,
   startTime |-> DateNow, status |-> "on_hold"]

\* `+91 ${Math.floor(Math.random() * 10000000000)}`: one of the draws
CallerNumbers == {"+91 0"}

\* Lifespans of up to a minute: Math.random() * 50000 + 10000
Lifespans_UpToAMinute == {LifespanBase, LifespanBase + 50}

\* Lifespans without the ten seconds added: Math.random() * 30000
Lifespans_NoBase == {0, LifespanRange - 1}

\* Math.random() * 30000 + 10000, in whole seconds: LifespanBase <= l < Base + Range
Lifespans ==
  {l \in LifespanBase .. (LifespanBase + LifespanRange - 1) :
     (l - LifespanBase) % LifespanStep = 0}
  \cup {LifespanBase + LifespanRange - 1}

\* the id of the call that the first arrival check creates, if it creates one
FirstSimId == MountTime + EventInterval

\* ids an operator command may name: one id (0) that no session ever has,
\* the last MaxInitialTargets initial calls and the first simulated call
CallIds ==
  {0} \cup {initialLiveCalls[i].id :
              i \in (Len(initialLiveCalls) - MaxInitialTargets + 1) .. Len(initialLiveCalls)}
      \cup {FirstSimId}

Actions == {"answer", "hold"}

\* the newCall object that an arrival built when Date.now() was id
NewCallAt(id) ==
  [NewCall(CHOOSE number \in CallerNumbers : TRUE) EXCEPT !.id = id, !.startTime = id]

\* ApplyUpdate whose answer/hold maps the list of the last render (the
\* liveCalls of the closure) in place of the updater's argument
ApplyUpdate_StaleClosure(prev, rendered, u) ==
  CASE u.op = "tick" -> TickUpdater(prev)
    [] u.op \in {"answer", "hold"} -> handleCallActionUpdater(rendered, u.id, u.op)
    [] u.op = "end" -> endCallUpdater(prev, u.id)
    [] u.op = "removal" -> RemovalUpdater(prev, u.id)
    [] u.op = "arrival" -> ArrivalUpdater(prev, NewCallAt(u.id))

\* one queued update of liveCalls: each setLiveCalls call of the component
\* passes a function of prev, the list the updates queued before it produced;
\* none reads the list of the last render
ApplyUpdate(prev, rendered, u) ==
  CASE u.op = "tick" -> TickUpdater(prev)
    [] u.op \in {"answer", "hold"} -> handleCallActionUpdater(prev, u.id, u.op)
    [] u.op = "end" -> endCallUpdater(prev, u.id)
    [] u.op = "removal" -> RemovalUpdater(prev, u.id)
    [] u.op = "arrival" -> ArrivalUpdater(prev, NewCallAt(u.id))

\* React processing the update queue of the liveCalls state in a render:
\* the updates are applied in the order they were queued
RECURSIVE ProcessQueue(_, _, _)
ProcessQueue(base, rendered, queue) ==
  IF queue = <<>> THEN base
  ELSE ProcessQueue(ApplyUpdate(base, rendered, Head(queue)), rendered, Tail(queue))

\* ------------------------------------------------------------- Init
Init ==
  /\ liveCalls = initialLiveCalls
  /\ selectedCall = NoCall
  /\ isListening = FALSE
  /\ isMuted = FALSE
  /\ timers = {}
  /\ now = 0
  /\ eventDue = EventInterval
  /\ result = "void"
  /\ mounted = TRUE
  /\ pending = <<>>
  /\ last = [op |-> "mount", id |-> NoCall, before |-> "absent"]

\* ------------------------------------------------------------- actions
NoOp(op) == [op |-> op, id |-> NoCall, before |-> "absent"]

\* the callback of the duration interval: it fires once a second, so its
\* firing is the clock of the model; the callbacks that were due in the
\* second before it have run
Tick(maxTime) ==
  /\ mounted
  /\ now < maxTime
  /\ eventDue > now
  /\ \A t \in timers : t.due > now
  /\ now' = now + TickInterval
  /\ liveCalls' = TickUpdater(liveCalls)
  /\ last' = NoOp("tick")
  /\ UNCHANGED <<pending, mounted, selectedCall, isListening, isMuted, timers, eventDue, result>>

\* the callback of the call-event interval (every 10 seconds): with
\* Math.random() > 0.8 a new call is appended and its removal is scheduled
ArrivalCheck ==
  /\ mounted
  /\ now >= eventDue
  /\ eventDue' = eventDue + EventInterval
  /\ \E arrives \in BOOLEAN :
       IF arrives
         THEN \E number \in CallerNumbers, lifespan \in Lifespans :
                /\ liveCalls' = ArrivalUpdater(liveCalls, NewCall(number))
                /\ timers' = timers \cup {[id |-> NewCall(number).id, due |-> now + lifespan]}
                /\ last' = [op |-> "arrival", id |-> NewCall(number).id,
                            before |-> StatusOf(liveCalls, NewCall(number).id)]
         ELSE /\ UNCHANGED <<liveCalls, timers>>
              /\ last' = NoOp("no_arrival")
  /\ UNCHANGED <<pending, mounted, selectedCall, isListening, isMuted, now, result>>

\* the setTimeout callback of a simulated call: filter it out of liveCalls;
\* no cleanup clears the timeout, and React drops a state update of a
\* component that is no longer mounted
RemovalTimer(t) ==
  /\ t \in timers
  /\ now >= t.due
  /\ liveCalls' = IF mounted THEN RemovalUpdater(liveCalls, t.id) ELSE liveCalls
  /\ timers' = timers \ {t}
  /\ last' = [op |-> "removal", id |-> t.id, before |-> StatusOf(liveCalls, t.id)]
  /\ UNCHANGED <<pending, mounted, selectedCall, isListening, isMuted, now, eventDue, result>>

\* handleCallAction(callId, action); it returns nothing
handleCallAction(callId, action) ==
  /\ mounted
  /\ liveCalls' = handleCallActionUpdater(liveCalls, callId, action)
  /\ result' = "void"
  /\ last' = [op |-> action, id |-> callId, before |-> StatusOf(liveCalls, callId)]
  /\ UNCHANGED <<pending, mounted, selectedCall, isListening, isMuted, timers, now, eventDue>>

\* endCall that also switches Listen and Mute off
endCall_ResetsFlags(callId) ==
  /\ mounted
  /\ liveCalls' = endCallUpdater(liveCalls, callId)
  /\ selectedCall' = IF selectedCall = callId THEN NoCall ELSE selectedCall
  /\ isListening' = FALSE
  /\ isMuted' = FALSE
  /\ result' = "void"
  /\ last' = [op |-> "end", id |-> callId, before |-> StatusOf(liveCalls, callId)]
  /\ UNCHANGED <<pending, mounted, timers, now, eventDue>>

\* endCall(callId); it returns nothing
endCall(callId) ==
  /\ mounted
  /\ liveCalls' = endCallUpdater(liveCalls, callId)
  /\ selectedCall' = IF selectedCall = callId THEN NoCall ELSE selectedCall
  /\ result' = "void"
  /\ last' = [op |-> "end", id |-> callId, before |-> StatusOf(liveCalls, callId)]
  /\ UNCHANGED <<pending, mounted, isListening, isMuted, timers, now, eventDue>>

\* the Listen / Mute buttons are rendered on the card of a call whose status
\* is active only
ShowsControls(calls, callId) ==
  \E i \in DOMAIN calls : calls[i].id = callId /\ calls[i].status = "active"

\* the Listen button of the card of callId: setIsListening(!isListening)
ToggleListen(callId) ==
  /\ mounted
  /\ ShowsControls(liveCalls, callId)
  /\ isListening' = ListenClick(isListening, isMuted).isListening
  /\ isMuted' = ListenClick(isListening, isMuted).isMuted
  /\ result' = "void"
  /\ last' = [op |-> "listen", id |-> callId, before |-> StatusOf(liveCalls, callId)]
  /\ UNCHANGED <<pending, mounted, liveCalls, selectedCall, timers, now, eventDue>>

\* the Mute button of the card of callId: setIsMuted(!isMuted)
ToggleMute(callId) ==
  /\ mounted
  /\ ShowsControls(liveCalls, callId)
  /\ isListening' = MuteClick(isListening, isMuted).isListening
  /\ isMuted' = MuteClick(isListening, isMuted).isMuted
  /\ result' = "void"
  /\ last' = [op |-> "mute", id |-> callId, before |-> StatusOf(liveCalls, callId)]
  /\ UNCHANGED <<pending, mounted, liveCalls, selectedCall, timers, now, eventDue>>

\* a click on the card of a rendered call: setSelectedCall(call.id)
SelectCall(callId) ==
  /\ mounted
  /\ callId \in IdsOf(liveCalls)
  /\ selectedCall' = callId
  /\ last' = [op |-> "select", id |-> callId, before |-> StatusOf(liveCalls, callId)]
  /\ UNCHANGED <<pending, mounted, liveCalls, isListening, isMuted, timers, now, eventDue, result>>

\* the close button of the details panel: setSelectedCall(null)
CloseDetails ==
  /\ mounted
  /\ selectedCall # NoCall
  /\ selectedCall' = NoCall
  /\ last' = NoOp("close")
  /\ UNCHANGED <<pending, mounted, liveCalls, isListening, isMuted, timers, now, eventDue, result>>

\* the cleanups of the two effects, run when the page is left:
\* clearInterval(interval) and clearInterval(eventInterval)
Unmount ==
  /\ mounted
  /\ mounted' = FALSE
  /\ last' = NoOp("unmount")
  /\ UNCHANGED <<pending, liveCalls, selectedCall, isListening, isMuted, timers, now,
                 eventDue, result>>

\* a second passes after the cleanup, when no duration interval counts it
TimePasses(maxTime) ==
  /\ ~mounted
  /\ now < maxTime
  /\ \A t \in timers : t.due > now
  /\ now' = now + TickInterval
  /\ last' = NoOp("time")
  /\ UNCHANGED <<pending, liveCalls, selectedCall, isListening, isMuted, timers,
                 eventDue, result, mounted>>

\* ---- the handlers with the render apart: setLiveCalls queues the update,
\* the Store changes when React renders next
Queue(u) ==
  /\ mounted
  /\ Len(pending) < MaxPending
  /\ pending' = Append(pending, u)
  /\ last' = [op |-> "queue", id |-> u.id, before |-> StatusOf(liveCalls, u.id)]
  /\ UNCHANGED <<liveCalls, isListening, isMuted, result, mounted>>

QueueTick ==
  /\ now < BatchMaxTime
  /\ eventDue > now
  /\ \A t \in timers : t.due > now
  /\ now' = now + TickInterval
  /\ Queue([op |-> "tick", id |-> NoCall])
  /\ UNCHANGED <<selectedCall, timers, eventDue>>

QueueArrival ==
  /\ mounted
  /\ now >= eventDue
  /\ eventDue' = eventDue + EventInterval
  /\ \E arrives \in BOOLEAN, lifespan \in Lifespans :
       IF arrives
         THEN /\ timers' = timers \cup {[id |-> DateNow, due |-> now + lifespan]}
              /\ Queue([op |-> "arrival", id |-> DateNow])
         ELSE /\ last' = NoOp("no_arrival")
              /\ UNCHANGED <<liveCalls, isListening, isMuted, result, mounted,
                             pending, timers>>
  /\ UNCHANGED <<selectedCall, now>>

QueueRemoval(t) ==
  /\ t \in timers
  /\ now >= t.due
  /\ timers' = timers \ {t}
  /\ Queue([op |-> "removal", id |-> t.id])
  /\ UNCHANGED <<selectedCall, now, eventDue>>

QueueAction(callId, action) ==
  /\ Queue([op |-> action, id |-> callId])
  /\ UNCHANGED <<selectedCall, timers, now, eventDue>>

QueueEnd(callId) ==
  /\ Queue([op |-> "end", id |-> callId])
  /\ selectedCall' = IF selectedCall = callId THEN NoCall ELSE selectedCall
  /\ UNCHANGED <<timers, now, eventDue>>

Render ==
  /\ mounted
  /\ pending # <<>>
  /\ liveCalls' = ProcessQueue(liveCalls, liveCalls, pending)
  /\ pending' = <<>>
  /\ last' = [op |-> "render", id |-> Len(pending), before |-> "absent"]
  /\ UNCHANGED <<selectedCall, isListening, isMuted, timers, now, eventDue,
                 result, mounted>>

Dispatch ==
  \/ \E callId \in CallIds, action \in Actions : handleCallAction(callId, action)
  \/ \E callId \in CallIds : endCall(callId)
  \/ \E callId \in CallIds : ToggleListen(callId)
  \/ \E callId \in CallIds : ToggleMute(callId)

Next ==
  \/ Tick(MaxTime)
  \/ ArrivalCheck
  \/ \E t \in timers : RemovalTimer(t)
  \/ Dispatch
  \/ \E callId \in CallIds : SelectCall(callId)
  \/ CloseDetails

Spec == Init /\ [][Next]_vars

\* ------------------------------- the run that starts with an empty Store
\* the state right after mount once the operator has ended the three
\* initial calls, the last of them live-3
EmptyInit ==
  /\ liveCalls = <<>>
  /\ selectedCall = NoCall
  /\ isListening = FALSE
  /\ isMuted = FALSE
  /\ timers = {}
  /\ now = 0
  /\ eventDue = EventInterval
  /\ result = "void"
  /\ mounted = TRUE
  /\ pending = <<>>
  /\ last = [op |-> "end", id |-> initialLiveCalls[Len(initialLiveCalls)].id,
             before |-> initialLiveCalls[Len(initialLiveCalls)].status]

EmptySpec == EmptyInit /\ [][Next]_vars

\* ------------------------- the simulator and the end button over a minute
\* the timer callbacks and the end button, up to the second maxTime
SimNext(maxTime) ==
  \/ Tick(maxTime)
  \/ ArrivalCheck
  \/ \E t \in timers : RemovalTimer(t)
  \/ \E callId \in CallIds : endCall(callId)

LifespanNext == SimNext(LifespanMaxTime)

LifespanSpec == Init /\ [][LifespanNext]_vars

\* ------------------------------------------- the page is left at some time
ShutdownNext ==
  \/ SimNext(MaxTime)
  \/ Unmount
  \/ TimePasses(MaxTime)

ShutdownSpec == Init /\ [][ShutdownNext]_vars

\* ------------------------------ several updates queued before one render
\* the ids the queued operator commands name: the last initial call and the
\* first simulated one
BatchIds == {initialLiveCalls[Len(initialLiveCalls)].id, FirstSimId}

BatchNext ==
  \/ QueueTick
  \/ QueueArrival
  \/ \E t \in timers : QueueRemoval(t)
  \/ \E callId \in BatchIds, action \in Actions : QueueAction(callId, action)
  \/ \E callId \in BatchIds : QueueEnd(callId)
  \/ Render

BatchSpec == Init /\ [][BatchNext]_vars

\* ------------------- the page is opened some seconds after the app loaded
\* initialLiveCalls is a constant of the module: its Date.now() is read when
\* the app loads the module, delay seconds before the route /live-calls
\* mounts the component and useState takes the constant
LoadedCalls(delay) ==
  [i \in DOMAIN initialLiveCalls |->
     [initialLiveCalls[i] EXCEPT !.startTime = initialLiveCalls[i].startTime - delay]]

RouteInit ==
  /\ \E delay \in 0..MaxLoadDelay : liveCalls = LoadedCalls(delay)
  /\ selectedCall = NoCall
  /\ isListening = FALSE
  /\ isMuted = FALSE
  /\ timers = {}
  /\ now = 0
  /\ eventDue = EventInterval
  /\ result = "void"
  /\ mounted = TRUE
  /\ pending = <<>>
  /\ last = NoOp("mount")

RouteNext == SimNext(MaxTime)

RouteSpec == RouteInit /\ [][RouteNext]_vars

\* ------------------------------------------- the dispatcher on any Store
\* a session of the LiveCall type with a given id and status
Session(id, status) ==
  [id |-> id, callerNumber |-> "+91 98765 43212", callerName |-> "Waiting...",
   intent |-> "Unknown", sentiment |-> "neutral", duration |-> 23,
   startTime |-> MountTime - 23, status |-> status]

\* the stores of at most MaxStore sessions with distinct ids 1..MaxStore
DispatchStores ==
  {calls \in UNION {[1..n -> {Session(id, st) : id \in 1..MaxStore, st \in Statuses}]
                      : n \in 0..MaxStore} :
     \A i, j \in DOMAIN calls : calls[i].id = calls[j].id => i = j}

DispatchInit ==
  /\ liveCalls \in DispatchStores
  /\ selectedCall = NoCall
  /\ isListening = FALSE
  /\ isMuted = FALSE
  /\ timers = {}
  /\ now = 0
  /\ eventDue = EventInterval
  /\ result = "void"
  /\ mounted = TRUE
  /\ pending = <<>>
  /\ last = NoOp("mount")

DispatchNext ==
  \/ Tick(DispatchMaxTime)
  \/ Dispatch

DispatchSpec == DispatchInit /\ [][DispatchNext]_vars

TypeOK ==
  /\ \A i \in DOMAIN liveCalls : liveCalls[i].status \in Statuses
  /\ isListening \in BOOLEAN /\ isMuted \in BOOLEAN /\ mounted \in BOOLEAN
  /\ now \in 0..(LifespanMaxTime + 1)
  /\ result = "void"

\* ============================================================ properties
\* ids of the calls the arrival checks of a run can create
SimIds == {MountTime + t : t \in {u \in 1..(MaxTime + 1) : u % EventInterval = 0}}

\* the session id is not in the Store, and the moment at which it could
\* have been created is over
Ended(id) ==
  /\ id \notin IdsOf(liveCalls)
  /\ id \in IdsOf(initialLiveCalls) \/ eventDue > id - MountTime

\* the id that the operation of the step names
Target == last'.id

\* the step removes the session id, if present, and nothing else: the
\* other sessions stay, unmodified and in their order
RemovesOnly(id) ==
  LET kept == {i \in DOMAIN liveCalls : liveCalls[i].id # id}
      shift(i) == Cardinality({j \in DOMAIN liveCalls : j < i /\ j \notin kept})
  IN /\ id \notin IdsOf(liveCalls')
     /\ Len(liveCalls') = Cardinality(kept)
     /\ \A i \in kept : liveCalls'[i - shift(i)] = liveCalls[i]

\* ---- C1: one tick of the duration interval adds exactly 1 to the duration
\* of every session in the Store, whatever its status, changes no other
\* field, adds and removes no session, and touches nothing outside the Store
C1_TickAdvancesEverySession ==
  [][Tick(MaxTime) =>
       /\ Len(liveCalls') = Len(liveCalls)
       /\ \A i \in DOMAIN liveCalls :
            liveCalls'[i] = [liveCalls[i] EXCEPT !.duration = liveCalls[i].duration + 1]
       /\ UNCHANGED <<selectedCall, isListening, isMuted, timers, eventDue, result>>]_vars

C1_Witness ==
  /\ last.op = "tick"
  /\ \E i, j \in DOMAIN liveCalls :
       /\ liveCalls[i].status = "on_hold"
       /\ liveCalls[j].status = "active"
       /\ liveCalls[i].duration = initialLiveCalls[3].duration + now

\* ---- C2: answer on a session that is on_hold sets its status to active and
\* changes nothing else; the stats then count it as active and no longer as
\* waiting.  From the empty Store: the simulator creates A on_hold, answer(A)
\* gives activeCalls = 1 and waitingCalls = 0, end(A) empties the Store
C2_AnswerActivatesWaitingCall ==
  [][/\ (/\ last'.op = "answer"
         /\ StatusOf(liveCalls, Target) = "on_hold"
         /\ handleCallAction(Target, "answer")) =>
          /\ Len(liveCalls') = Len(liveCalls)
          /\ \A i \in DOMAIN liveCalls :
               liveCalls'[i] = IF liveCalls[i].id = Target
                                 THEN [liveCalls[i] EXCEPT !.status = "active"]
                                 ELSE liveCalls[i]
          /\ UNCHANGED <<selectedCall, isListening, isMuted, timers, now, eventDue>>
          /\ StatsOf(liveCalls').activeCalls = StatsOf(liveCalls).activeCalls + 1
          /\ StatsOf(liveCalls').waitingCalls = StatsOf(liveCalls).waitingCalls - 1
          /\ Len(liveCalls) = 1 =>
               /\ StatsOf(liveCalls').activeCalls = 1
               /\ StatsOf(liveCalls').waitingCalls = 0
     /\ (/\ last'.op = "end"
         /\ IdsOf(liveCalls) = {Target}
         /\ endCall(Target)) => liveCalls' = <<>>]_vars

C2_Witness ==
  /\ liveCalls = <<>>
  /\ last = [op |-> "end", id |-> FirstSimId, before |-> "active"]
  /\ \E t \in timers : t.id = FirstSimId

C4_AnswerOnActiveIsInvalid ==
  [][\A callId \in CallIds :
       (handleCallAction(callId, "answer") /\ StatusOf(liveCalls, callId) = "active") =>
         /\ result' = "InvalidTransition"
         /\ liveCalls' = liveCalls]_vars

\* ---- C5: end is idempotent: an end never fails, whether or not the session
\* is there; it leaves the Store without the id; an end of an absent id
\* leaves the Store as it is; and an id that was ended stays out of the
\* Store whatever runs between and after the two calls
C5_EndIsIdempotent ==
  [][/\ (last'.op = "end" /\ endCall(Target)) =>
          /\ result' = "void"
          /\ Target \notin IdsOf(liveCalls')
          /\ Target \notin IdsOf(liveCalls) => liveCalls' = liveCalls
     /\ \A callId \in CallIds : Ended(callId) => Ended(callId)']_vars

C5_Witness ==
  /\ last.op = "end"
  /\ last.id \in IdsOf(initialLiveCalls)
  /\ last.before = "absent"

\* ---- C6: an operator's end and the scheduled removal of the same simulated
\* session, in either order: each of the two removes that session if it is
\* there and no other session, leaves the others unmodified, and reports no
\* error; the second of the two leaves the Store unchanged; the session is
\* absent from the first removal onwards
C6_EndAndTimedRemovalRace ==
  [][/\ (/\ last'.op = "removal"
         /\ Target \in SimIds
         /\ \E t \in timers : t.id = Target /\ RemovalTimer(t)) =>
          RemovesOnly(Target) /\ result' = result
     /\ (last'.op = "end" /\ Target \in SimIds /\ endCall(Target)) =>
          RemovesOnly(Target) /\ result' = "void"
     /\ \A id \in SimIds : Ended(id) => Ended(id)']_vars

C6_Witness ==
  /\ last = [op |-> "removal", id |-> FirstSimId, before |-> "absent"]
  /\ Len(liveCalls) >= Len(initialLiveCalls) - 1

\* ---- C7: an action that names an id with no session in the Store is a
\* no-op reported as not found: the Store is unchanged
C7_AbsentIdIsNotFound ==
  [][\A callId \in CallIds :
       (/\ callId \notin IdsOf(liveCalls)
        /\ \/ \E action \in Actions : handleCallAction(callId, action)
           \/ endCall(callId)
           \/ ToggleMute(callId)
           \/ ToggleListen(callId)) =>
         /\ liveCalls' = liveCalls
         /\ result' = "NotFound"]_vars

\* ---- C8: in every reachable state the two counts of the stats, computed
\* from one value of the Store, add up to at most the number of sessions
C8_CountsWithinSnapshot ==
  stats.activeCalls + stats.waitingCalls <= Len(liveCalls)

C8_Witness ==
  /\ last.op = "answer"
  /\ Len(liveCalls) > Len(initialLiveCalls)
  /\ stats.activeCalls >= 1
  /\ stats.waitingCalls >= 1

\* ---- C9: activeCalls is the number of sessions whose status is active,
\* waitingCalls the number whose status is on_hold; a transferring session
\* is counted in neither
C9_StatsCountByStatus ==
  LET with(st) == {i \in DOMAIN liveCalls : liveCalls[i].status = st}
  IN /\ stats.activeCalls = Cardinality(with("active"))
     /\ stats.waitingCalls = Cardinality(with("on_hold"))
     /\ stats.activeCalls + stats.waitingCalls
          = Len(liveCalls) - Cardinality(with("transferring"))

C9_Witness ==
  /\ last.op = "hold"
  /\ \E i \in DOMAIN liveCalls : liveCalls[i].status = "transferring"
  /\ stats.activeCalls = 1
  /\ stats.waitingCalls = 1

\* ---- C10: the mute toggle on an active session flips the mute flag and
\* leaves the listen flag and the Store (every duration, every status, the
\* set of sessions) unchanged; the listen toggle flips the listen flag alone
C10_TogglesFlipOneFlag ==
  [][/\ (/\ last'.op = "mute"
         /\ StatusOf(liveCalls, Target) = "active"
         /\ ToggleMute(Target)) =>
          /\ isMuted' = ~isMuted
          /\ UNCHANGED <<isListening, liveCalls, selectedCall, timers>>
     /\ (/\ last'.op = "listen"
         /\ StatusOf(liveCalls, Target) = "active"
         /\ ToggleListen(Target)) =>
          /\ isListening' = ~isListening
          /\ UNCHANGED <<isMuted, liveCalls, selectedCall, timers>>]_vars

C10_Witness ==
  /\ last.op = "mute"
  /\ last.before = "active"
  /\ isMuted
  /\ isListening

\* the mute and listen flags that the card of the session id is drawn with
MuteFlagOf(id) == isMuted
ListenFlagOf(id) == isListening

\* ---- C11: for a session that is on hold, the mute toggle and the listen
\* toggle are commands that answer InvalidTransition and leave both flags and
\* the Store as they were: such a step of each toggle is possible
C11_ToggleOnHoldIsInvalid ==
  \A callId \in CallIds :
    (mounted /\ StatusOf(liveCalls, callId) = "on_hold") =>
      /\ ENABLED (/\ ToggleMute(callId)
                  /\ result' = "InvalidTransition"
                  /\ UNCHANGED <<isMuted, isListening, liveCalls>>)
      /\ ENABLED (/\ ToggleListen(callId)
                  /\ result' = "InvalidTransition"
                  /\ UNCHANGED <<isMuted, isListening, liveCalls>>)

\* ---- C12: a mute click on the card of one active session leaves the mute
\* flag of every other session of the Store as it was, and a listen click
\* leaves the listen flag of every other session as it was
C12_FlagsAreSessionScoped ==
  [][/\ (last'.op = "mute" /\ ToggleMute(Target)) =>
          \A id \in IdsOf(liveCalls) \ {Target} : MuteFlagOf(id)' = MuteFlagOf(id)
     /\ (last'.op = "listen" /\ ToggleListen(Target)) =>
          \A id \in IdsOf(liveCalls) \ {Target} : ListenFlagOf(id)' = ListenFlagOf(id)]_vars

\* ---- C13: hold on a session whose status is active sets the status of
\* that session to on_hold; its other fields, the other sessions, their
\* order, the selection, the flags and the timers stay as they were
C13_HoldParksActiveCall ==
  [][(/\ last'.op = "hold"
      /\ StatusOf(liveCalls, Target) = "active"
      /\ handleCallAction(Target, "hold")) =>
        /\ Len(liveCalls') = Len(liveCalls)
        /\ \A i \in DOMAIN liveCalls :
             liveCalls'[i] = IF liveCalls[i].id = Target
                               THEN [liveCalls[i] EXCEPT !.status = "on_hold"]
                               ELSE liveCalls[i]
        /\ UNCHANGED <<selectedCall, isListening, isMuted, timers, now, eventDue>>]_vars

C13_Witness ==
  /\ last.op = "hold" /\ last.before = "active"
  /\ StatusOf(liveCalls, last.id) = "on_hold"
  /\ \E i \in DOMAIN liveCalls : liveCalls[i].id # last.id /\ liveCalls[i].status = "active"

\* the duration of the session id in the Store calls
DurationOf(calls, id) == calls[FindIndex(calls, id)].duration

\* ---- C14: the duration of every session of the Store is at least 0 in
\* every state, and from one state to the next, whatever the step is (tick,
\* arrival, timed removal, operator action), the duration of a session that
\* stays in the Store does not decrease
C14_DurationNeverDecreases ==
  /\ [](\A i \in DOMAIN liveCalls : liveCalls[i].duration >= 0)
  /\ [][\A i \in DOMAIN liveCalls' :
          liveCalls'[i].id \in IdsOf(liveCalls) =>
            liveCalls'[i].duration >= DurationOf(liveCalls, liveCalls'[i].id)]_vars

C14_Witness ==
  /\ last.op = "removal"
  /\ StatusOf(liveCalls, 3) = "active"
  /\ DurationOf(liveCalls, 3) = 23 + now
  /\ now >= EventInterval + LifespanBase

\* the id names an initial session, or the arrival check that could have
\* created a session with this id is over
Issued(id) ==
  \/ id \in IdsOf(initialLiveCalls)
  \/ id - MountTime < eventDue /\ id - MountTime >= EventInterval

\* ---- C15: the Store never holds two records with the same id.  Every id
\* of the Store or of a removal timer is issued, an issued id stays issued,
\* and a successful arrival check appends one record with an id that was not
\* issued before: the id of a new session is not the id of a session that is
\* in the Store or was in it earlier
C15_IdsAreUnique ==
  /\ [](\A i, j \in DOMAIN liveCalls : liveCalls[i].id = liveCalls[j].id => i = j)
  /\ [](\A id \in IdsOf(liveCalls) \cup {t.id : t \in timers} : Issued(id))
  /\ [][eventDue' >= eventDue]_vars
  /\ [][last'.op = "arrival" =>
          /\ ~Issued(Target)
          /\ Target \notin IdsOf(liveCalls)
          /\ Cardinality({i \in DOMAIN liveCalls' : liveCalls'[i].id = Target}) = 1]_vars

C15_Witness ==
  /\ last.op = "arrival"
  /\ last.id \in IdsOf(liveCalls)
  /\ 3 \notin IdsOf(liveCalls)
  /\ Len(liveCalls) = 3

\* ---- C16: an arrival check that succeeds appends exactly one session: its
\* id is new, its status is on_hold, its sentiment neutral, its duration 0,
\* its name and intent are the placeholders; every session that was in the
\* Store is still there, unmodified and at its place.  An arrival check that
\* does not succeed leaves the Store and the timers as they were
C16_ArrivalAddsOneWaitingCall ==
  [][/\ last'.op = "arrival" =>
          /\ Len(liveCalls') = Len(liveCalls) + 1
          /\ \A i \in DOMAIN liveCalls : liveCalls'[i] = liveCalls[i]
          /\ LET newCall == liveCalls'[Len(liveCalls')]
             IN /\ newCall.id = Target
                /\ newCall.id \notin IdsOf(liveCalls)
                /\ newCall.status = "on_hold"
                /\ newCall.sentiment = "neutral"
                /\ newCall.duration = 0
                /\ newCall.callerName = "Incoming Call..."
                /\ newCall.intent = "Unknown"
     /\ last'.op = "no_arrival" => UNCHANGED <<liveCalls, timers>>]_vars

C16_Witness ==
  /\ last.op = "arrival"
  /\ Len(liveCalls) = 4
  /\ liveCalls[4].id = last.id
  /\ liveCalls[3].status = "active"
  /\ eventDue > 2 * EventInterval

\* seconds since the arrival check that created the simulated session id
AgeOf(id) == now - (id - MountTime)

\* ---- C17: a successful arrival check schedules exactly one removal, for
\* the session it creates, due LifespanBase to LifespanBase + LifespanRange
\* seconds (the upper end excluded) later, and no other step schedules one.
\* A session leaves the Store only by the end button or by its own timer,
\* and the timer does not run before the session is LifespanBase seconds
\* old; no simulated session of the Store is LifespanBase + LifespanRange
\* seconds old
C17_RemovalBetweenTenAndFortySeconds ==
  /\ [][/\ last'.op = "arrival" =>
             /\ \A t \in timers : t.id # Target
             /\ \E t \in timers' :
                  /\ timers' = timers \cup {t} /\ t \notin timers
                  /\ t.id = Target
                  /\ t.due - now >= LifespanBase
                  /\ t.due - now < LifespanBase + LifespanRange
        /\ last'.op # "arrival" => timers' \subseteq timers
        /\ \A id \in IdsOf(liveCalls) \ IdsOf(liveCalls') :
             /\ Target = id
             /\ \/ last'.op = "end"
                \/ last'.op = "removal" /\ AgeOf(id) >= LifespanBase]_vars
  /\ [](\A id \in IdsOf(liveCalls) \ IdsOf(initialLiveCalls) :
          AgeOf(id) < LifespanBase + LifespanRange)

C17_Witness ==
  /\ last.op = "removal"
  /\ last.before # "absent"
  /\ AgeOf(last.id) = LifespanBase + LifespanRange - 1
  /\ last.id \notin IdsOf(liveCalls)
  /\ \E t \in timers : AgeOf(t.id) < LifespanBase /\ t.id \in IdsOf(liveCalls)

\* ---- C18: a tick, an arrival check (successful or not) and a timed
\* removal leave the status of every session that stays in the Store as it
\* was; the status a session has is the one it was created with or the one
\* handleCallAction wrote last
C18_StatusWrittenByDispatcherOnly ==
  [][last'.op \in {"tick", "arrival", "no_arrival", "removal"} =>
       \A i \in DOMAIN liveCalls' :
         liveCalls'[i].id \in IdsOf(liveCalls) =>
           liveCalls'[i].status = StatusOf(liveCalls, liveCalls'[i].id)]_vars

C18_Witness ==
  /\ last.op = "tick"
  /\ now > EventInterval
  /\ StatusOf(liveCalls, 3) = "active"
  /\ StatusOf(liveCalls, FirstSimId) = "on_hold"
  /\ \E i \in DOMAIN liveCalls : liveCalls[i].id \in {1, 2} /\ liveCalls[i].status = "active"

\* ---- C19: once the cleanups of the effects have run, no step is a tick,
\* an arrival check or the callback of a removal timer, and the Store stays
\* as it is
C19_NothingFiresAfterShutdown ==
  [][~mounted =>
       /\ last'.op \notin {"tick", "arrival", "no_arrival", "removal"}
       /\ liveCalls' = liveCalls]_vars

\* the duration the session id entered the Store with, and the ticks since
FirstDuration(id) ==
  IF id \in IdsOf(initialLiveCalls) THEN DurationOf(initialLiveCalls, id) ELSE 0
TicksSince(id) == IF id \in IdsOf(initialLiveCalls) THEN now ELSE AgeOf(id)

\* ---- C20: a tick adds exactly 1 to the duration of every session of the
\* Store and keeps its status, and no other step changes the duration of a
\* session that stays: after k ticks a session has its earlier duration
\* plus k (live-3: 23, then 28 after 5 ticks), whatever arrivals, timed
\* removals and operator actions happen in between; a session that arrives
\* between two ticks has duration 0 until the next tick makes it 1
C20_DurationCountsTicks ==
  /\ [](\A i \in DOMAIN liveCalls :
          liveCalls[i].duration =
            FirstDuration(liveCalls[i].id) + TicksSince(liveCalls[i].id))
  /\ [][IF last'.op = "tick"
          THEN /\ Len(liveCalls') = Len(liveCalls)
               /\ \A i \in DOMAIN liveCalls :
                    /\ liveCalls'[i].id = liveCalls[i].id
                    /\ liveCalls'[i].duration = liveCalls[i].duration + 1
                    /\ liveCalls'[i].status = liveCalls[i].status
          ELSE \A i \in DOMAIN liveCalls' :
                 liveCalls'[i].duration =
                   IF liveCalls'[i].id \in IdsOf(liveCalls)
                     THEN DurationOf(liveCalls, liveCalls'[i].id) ELSE 0]_vars

C20_Witness ==
  /\ last.op = "tick"
  /\ now = EventInterval + 5
  /\ StatusOf(liveCalls, 3) = "active" /\ DurationOf(liveCalls, 3) = 23 + EventInterval + 5
  /\ StatusOf(liveCalls, FirstSimId) = "active" /\ DurationOf(liveCalls, FirstSimId) = 5
  /\ Len(liveCalls) = 4

\* the position in the queue after which the session id exists: 0 if the
\* rendered Store holds it, the position of its arrival if one is queued,
\* and -1 otherwise
InsertedAt(id) ==
  IF id \in IdsOf(liveCalls) THEN 0
  ELSE IF \E k \in DOMAIN pending : pending[k] = [op |-> "arrival", id |-> id]
         THEN CHOOSE k \in DOMAIN pending : pending[k] = [op |-> "arrival", id |-> id]
         ELSE -1

\* the queued updates that act on the session id once it exists
UpdatesOf(id, ops) ==
  {k \in DOMAIN pending :
     /\ k > InsertedAt(id)
     /\ pending[k].op \in ops
     /\ pending[k].op = "tick" \/ pending[k].id = id}

\* the session id as the queued updates leave it, none of them lost
AfterUpdates(id) ==
  LET first == IF id \in IdsOf(liveCalls)
                 THEN liveCalls[FindIndex(liveCalls, id)] ELSE NewCallAt(id)
      writes == UpdatesOf(id, Actions)
      lastWrite == CHOOSE k \in writes : \A j \in writes : j <= k
  IN [first EXCEPT
        !.duration = first.duration + Cardinality(UpdatesOf(id, {"tick"})),
        !.status = IF writes = {} THEN first.status
                   ELSE IF pending[lastWrite].op = "answer" THEN "active" ELSE "on_hold"]

\* ---- C21: when several updates of the Store (tick, arrival, timed removal,
\* answer, hold, end) are queued before one render, the render leaves every
\* session as all the updates that act on it make it: it is in the Store
\* unless an end or a removal queued after its insertion names it, its
\* duration has one more second per queued tick, its status is the one the
\* last queued answer or hold wrote, and its other fields are untouched.  A
\* tick and an answer on one session give it both the duration plus 1 and
\* the status active
C21_NoUpdateIsLost ==
  [][last'.op = "render" =>
       /\ IdsOf(liveCalls') =
            {id \in IdsOf(liveCalls) \cup {pending[k].id : k \in DOMAIN pending} :
               /\ InsertedAt(id) >= 0
               /\ UpdatesOf(id, {"end", "removal"}) = {}}
       /\ Len(liveCalls') = Cardinality(IdsOf(liveCalls'))
       /\ \A i \in DOMAIN liveCalls' : liveCalls'[i] = AfterUpdates(liveCalls'[i].id)]_vars

C21_Witness ==
  /\ last = [op |-> "render", id |-> MaxPending, before |-> "absent"]
  /\ now = 1
  /\ StatusOf(liveCalls, 3) = "active"
  /\ DurationOf(liveCalls, 3) = 24
  /\ DurationOf(liveCalls, 1) = 126

\* ---- C22: end on a session of the Store, whatever its status (on_hold,
\* active or transferring), returns normally and removes that session and
\* no other: the Store is one shorter, and the other sessions stay,
\* unmodified and in their order
C22_EndAcceptedInAnyStatus ==
  [][(/\ last'.op = "end"
      /\ Target \in IdsOf(liveCalls)
      /\ endCall(Target)) =>
        /\ result' = "void"
        /\ RemovesOnly(Target)
        /\ Len(liveCalls') = Len(liveCalls) - 1
        /\ UNCHANGED <<isListening, isMuted, timers, now, eventDue>>]_vars

C22_Witness ==
  /\ last = [op |-> "end", id |-> 3, before |-> "transferring"]
  /\ 3 \notin IdsOf(liveCalls)
  /\ StatusOf(liveCalls, 1) = "transferring"
  /\ StatusOf(liveCalls, 2) = "on_hold"

\* ---- C23: no step changes the startTime of a session that stays in the
\* Store, and in every state the duration of every session, initial or
\* simulated, differs from the seconds elapsed since its startTime by less
\* than one tick interval
C23_DurationMatchesStartTime ==
  /\ [][\A i \in DOMAIN liveCalls' : \A j \in DOMAIN liveCalls :
          liveCalls'[i].id = liveCalls[j].id =>
            liveCalls'[i].startTime = liveCalls[j].startTime]_vars
  /\ [](\A i \in DOMAIN liveCalls :
          LET elapsed == DateNow - liveCalls[i].startTime
          IN /\ liveCalls[i].duration - elapsed < TickInterval
             /\ elapsed - liveCalls[i].duration < TickInterval)

\* ---- C24: in every state reachable from the initial Store the status of
\* every session is active or on_hold, never transferring, and the stats'
\* activeCalls and waitingCalls add up to the number of sessions
C24_TransferringIsUnreachable ==
  /\ \A i \in DOMAIN liveCalls : liveCalls[i].status \in {"active", "on_hold"}
  /\ stats.activeCalls + stats.waitingCalls = Len(liveCalls)

C24_Witness ==
  /\ last.op = "hold" /\ last.before = "active"
  /\ Len(liveCalls) = 4
  /\ stats.activeCalls = 2
  /\ stats.waitingCalls = 2
  /\ now > EventInterval

\* ---- C25: whenever a card is selected, the Store holds a session with
\* the selected id
C25_SelectedCallIsInStore ==
  selectedCall # NoCall => selectedCall \in IdsOf(liveCalls)

\* ---- C26: answer and hold leave the removal timers as they are; a timer
\* leaves the set only when it fires, so its due time is never moved; it
\* fires at its due time (the clock does not pass a due timer); and when it
\* fires the session it names is out of the Store, whatever its status was
C26_RemovalIgnoresStatus ==
  /\ [][/\ last'.op \in Actions => timers' = timers
        /\ \A t \in timers \ timers' : last'.op = "removal" /\ Target = t.id
        /\ last'.op = "removal" => Target \notin IdsOf(liveCalls')]_vars
  /\ [](\A t \in timers : now <= t.due)

C26_Witness ==
  /\ last = [op |-> "removal", id |-> FirstSimId, before |-> "active"]
  /\ FirstSimId \notin IdsOf(liveCalls)
  /\ now = EventInterval + LifespanBase

\* ---- C27: no removal timer names live-1, live-2 or live-3, and a step
\* after which one of them is no longer in the Store is an end on that
\* session: without such an end an initial session stays in the Store
C27_InitialCallsLeaveByEndOnly ==
  /\ [](\A t \in timers : t.id \notin IdsOf(initialLiveCalls))
  /\ [][\A id \in (IdsOf(initialLiveCalls) \cap IdsOf(liveCalls)) \ IdsOf(liveCalls') :
          last'.op = "end" /\ Target = id]_vars

C27_Witness ==
  /\ last.op = "removal" /\ last.before # "absent"
  /\ IdsOf(liveCalls) = IdsOf(initialLiveCalls)
  /\ eventDue > 2 * EventInterval

\* the simulated sessions of the Store
Simulated == IdsOf(liveCalls) \ IdsOf(initialLiveCalls)

\* ---- C28: the Store never holds more than 4 simulated sessions, one per
\* arrival check of the last LifespanBase + LifespanRange = 40 seconds, and
\* so never more than 3 + 4 = 7 sessions
C28_AtMostFourSimulated ==
  /\ (LifespanBase + LifespanRange) \div EventInterval = 4
  /\ Cardinality(Simulated) <= 4
  /\ Len(liveCalls) <= Len(initialLiveCalls) + 4
  /\ Len(initialLiveCalls) + 4 = 7

C28_Witness ==
  /\ Cardinality(Simulated) = 4
  /\ Len(liveCalls) = 7
  /\ \E id \in Simulated : AgeOf(id) = LifespanBase + LifespanRange - 1

\* ---- C29: no step changes the relative order of two sessions that stay
\* in the Store, and a session that a step adds comes after all the others;
\* so the Store is always in creation order: live-1, live-2, live-3 as in
\* the initial list, then the simulated sessions, oldest first (their ids
\* are the times of their creation)
C29_StoreKeepsCreationOrder ==
  /\ [][\A i, j \in DOMAIN liveCalls' :
          i < j =>
            /\ liveCalls'[i].id \in IdsOf(liveCalls)
            /\ liveCalls'[j].id \in IdsOf(liveCalls) =>
                 FindIndex(liveCalls, liveCalls'[i].id) < FindIndex(liveCalls, liveCalls'[j].id)]_vars
  /\ [](\A i, j \in DOMAIN liveCalls : i < j => liveCalls[i].id < liveCalls[j].id)

C29_Witness ==
  /\ last.op = "end" /\ last.id = 3 /\ last.before = "active"
  /\ Len(liveCalls) = 3
  /\ liveCalls[3].id = FirstSimId
  /\ liveCalls[3].status = "active"
  /\ liveCalls[3].duration > 0

\* ---- C30: the Mute flag changes in a Mute click only and the Listen flag
\* in a Listen click only: answer, hold, end, tick, arrival check and timed
\* removal leave both as they are, so a flag that is on when a call is ended
\* or times out is still on afterwards
C30_FlagsChangeByToggleOnly ==
  [][/\ last'.op # "mute" => isMuted' = isMuted
     /\ last'.op # "listen" => isListening' = isListening]_vars

C30_Witness ==
  /\ last.op \in {"end", "removal"}
  /\ last.before = "active"
  /\ last.id \notin IdsOf(liveCalls)
  /\ isMuted /\ isListening

====
